---- MODULE Spec2Model ----
(***************************************************************************)
(* Land-valuation service (scrap_back): the valuation estimator            *)
(* calculateLandValue and the POST /estimate handler that calls it.        *)
(*                                                                         *)
(* Specifications:                                                         *)
(*   Spec      the estimator on arbitrary comparables, from the call at    *)
(*             src/routes/valuation.js:185 to the response;                *)
(*   SpecStats the same, on longer lists of usable comparables;            *)
(*   SpecSel   the whole handler: validation, the four selection stages,   *)
(*             the placeholder, the call and the response;                 *)
(*   SpecJobs  the scraping routes and their activeJobs map, and           *)
(*   SpecJobsFair, the same with every pending step eventually taken.      *)
(*                                                                         *)
(* Two versions of services/valuationService.js are in the repository:     *)
(*   calculateLandValue     src/services/valuationService.js:10-85         *)
(*   calculateLandValueFix  src/unnamed/part_005:85-280                    *)
(*                          ("FIX FOR MISSING COMPARABLES")                *)
(* The route requires '../services/valuationService', so either version    *)
(* can be the module behind the call at src/routes/valuation.js:185.       *)
(* The earliest version (src/unnamed/part_005:10-40: plain mean, three     *)
(* feature steps, no minimum) is not modelled.                             *)
(*                                                                         *)
(* JavaScript numbers are modelled as exact rationals [n, d] with d > 0,   *)
(* kept in lowest terms; the JavaScript value undefined is [n=0, d=0].     *)
(***************************************************************************)
EXTENDS Integers, Sequences, FiniteSets, TLC

VARIABLES impl, area, comparables, features, pc, result, response,
          req, sel, status,
          now, activeJobs, requests

\* The state of POST /estimate and the state of the scraping routes.
valuationVars == <<impl, area, comparables, features, pc, result, response, req, sel, status>>

scrapingVars == <<now, activeJobs, requests>>

vars == <<valuationVars, scrapingVars>>

(***************************************************************************)
(* Rational arithmetic                                                     *)
(***************************************************************************)
Abs(x) == IF x < 0 THEN -x ELSE x

RECURSIVE GCD(_, _)
GCD(a, b) == IF b = 0 THEN a ELSE GCD(b, a % b)

R(n, d) ==
  LET g == GCD(Abs(n), Abs(d))
      s == IF d < 0 THEN -1 ELSE 1
  IN  [n |-> s * (n \div g), d |-> s * (d \div g)]

Num(k) == [n |-> k, d |-> 1]

undefined == [n |-> 0, d |-> 0]

RAdd(a, b) ==
  LET g == GCD(a.d, b.d)
  IN  R(a.n * (b.d \div g) + b.n * (a.d \div g), (a.d \div g) * b.d)

RNeg(a) == [n |-> -a.n, d |-> a.d]

RSub(a, b) == RAdd(a, RNeg(b))

RMul(a, b) ==
  LET g1 == GCD(Abs(a.n), b.d)
      g2 == GCD(Abs(b.n), a.d)
      h1 == IF g1 = 0 THEN 1 ELSE g1
      h2 == IF g2 = 0 THEN 1 ELSE g2
  IN  R((a.n \div h1) * (b.n \div h2), (a.d \div h2) * (b.d \div h1))

RDiv(a, b) == RMul(a, IF b.n < 0 THEN [n |-> -b.d, d |-> -b.n] ELSE [n |-> b.d, d |-> b.n])

RECURSIVE RCmp(_, _)
\* -1, 0 or 1 as a < b, a = b or a > b; compares integer parts first and
\* then the reciprocals of the fractional parts, so no product is formed.
RCmp(a, b) ==
  LET qa == a.n \div a.d
      qb == b.n \div b.d
      ra == a.n - qa * a.d
      rb == b.n - qb * b.d
  IN  IF qa < qb THEN -1
      ELSE IF qa > qb THEN 1
      ELSE IF ra = 0 /\ rb = 0 THEN 0
      ELSE IF ra = 0 THEN -1
      ELSE IF rb = 0 THEN 1
      ELSE RCmp([n |-> b.d, d |-> rb], [n |-> a.d, d |-> ra])

RLt(a, b) == RCmp(a, b) = -1

RLe(a, b) == RCmp(a, b) # 1

\* Math.round: the nearest integer, halves rounded up.
MathRound(a) ==
  LET q == a.n \div a.d
      r == a.n - q * a.d
  IN  IF 2 * r >= a.d THEN q + 1 ELSE q

\* JavaScript truthiness of a number or undefined: undefined and 0 are falsy.
Truthy(v) == v.d # 0 /\ v.n # 0

\* JavaScript `v > 0`: false for undefined.
Positive(v) == v.d # 0 /\ v.n > 0

\* JavaScript `v || 0`.
OrZero(v) == IF Truthy(v) THEN v ELSE Num(0)

(***************************************************************************)
(* Array helpers                                                           *)
(***************************************************************************)
RECURSIVE Insert(_, _)
Insert(x, s) ==
  IF s = <<>> THEN <<x>>
  ELSE IF RLe(x, Head(s)) THEN <<x>> \o s
  ELSE <<Head(s)>> \o Insert(x, Tail(s))

RECURSIVE SortAsc(_)
\* [...values].sort((a, b) => a - b): ascending order.
SortAsc(s) == IF s = <<>> THEN <<>> ELSE Insert(Head(s), SortAsc(Tail(s)))

RECURSIVE Sum(_)
\* values.reduce((sum, value) => sum + value, 0)
Sum(s) == IF s = <<>> THEN Num(0) ELSE RAdd(Head(s), Sum(Tail(s)))

RECURSIVE Product(_)
Product(s) == IF s = <<>> THEN Num(1) ELSE RMul(Head(s), Product(Tail(s)))

Mean(s) == RDiv(Sum(s), Num(Len(s)))

(***************************************************************************)
(* Bounds and inputs                                                       *)
(***************************************************************************)
\* Longest comparables list passed to the estimator.
MaxComps == 4

\* Subject areas: one small enough for the floor clamp and the small-land
\* premium, one ordinary, one above every large-land threshold.
Areas == {1, 1000, 20000}

Property(price, area_, pricePerSqFt) ==
  [price |-> price, area |-> area_, pricePerSqFt |-> pricePerSqFt]

\* Comparable listings, complete and malformed. The prices per square foot
\* are multiples of 120, so every mean, median and blend below is a whole
\* number and the running value keeps a small denominator.
Complete   == Property(Num(120000), Num(1000), Num(120))
NoPerSqFt  == Property(Num(600000), Num(2500), undefined)
NoPrice    == Property(undefined, Num(1000), Num(120))
PriceOnly  == Property(Num(100), undefined, undefined)
Negative   == Property(Num(10), undefined, Num(-120))
Expensive  == Property(Num(2400000), Num(2000), Num(1200))

Pool == {Complete, NoPerSqFt, NoPrice, PriceOnly, Negative, Expensive}

ComparableLists == UNION {[1..k -> Pool] : k \in 0..MaxComps}

FeatureSets == [nearWater : BOOLEAN, roadAccess : BOOLEAN, utilities : BOOLEAN]

(***************************************************************************)
(* Program constants                                                       *)
(***************************************************************************)
\* "Ensure minimum output value": if (estimatedValue < 1000)
MinValue == 1000

\* Fallback baseline price per square foot: const basePrice = 15
FallbackBasePrice == 15

\* Route default: Math.round(parsedArea * 20)
DefaultRate == 20

\* Fallback large-plot threshold: if (area > 10000)
FallbackLargeArea == 10000

\* if (sortedPrices.length >= 4)
QuartileMin == 4

(***************************************************************************)
(* Adjustment steps. A running state s is [v, f, steps]: the running       *)
(* estimatedValue, the valuationFactors pushed so far, and the multipliers *)
(* applied so far (in application order).                                  *)
(***************************************************************************)
Factor(name, adj) == [factor |-> name, adjustment |-> adj]

\* estimatedValue *= m; valuationFactors.push({factor, adjustment})
Step(s, m, name, adj) ==
  [v |-> RMul(s.v, m), f |-> Append(s.f, Factor(name, adj)), steps |-> Append(s.steps, m)]

\* let estimatedValue = basePrice * area; const valuationFactors = [];
Start(basePrice, a) == [v |-> RMul(basePrice, Num(a)), f |-> <<>>, steps |-> <<>>]

\* Variants of the water step: a discount instead of a premium, and the
\* fallback multiplier under the +15% label.
WaterProximityDiscount(s, ft) ==
  IF ft.nearWater THEN Step(s, R(85, 100), "Water Proximity", "-15%") ELSE s

WaterProximityMislabelled(s, ft) ==
  IF ft.nearWater THEN Step(s, R(120, 100), "Water Proximity", "+15%") ELSE s

WaterProximity(s, ft) ==
  IF ft.nearWater THEN Step(s, R(115, 100), "Water Proximity", "+15%") ELSE s

NoRoadAccess(s, ft) ==
  IF ~ft.roadAccess THEN Step(s, R(70, 100), "No Road Access", "-30%") ELSE s

NoUtilities(s, ft) ==
  IF ~ft.utilities THEN Step(s, R(80, 100), "No Utilities", "-20%") ELSE s

\* Variant of the mean area that reads the first comparable only.
avgLandSizeOfFirst(valid) == OrZero(valid[1].area)

\* avgLandSize = validComparables.reduce((sum, p) => sum + (p.area || 0), 0) / length
avgLandSizeOf(valid) == Mean([i \in 1..Len(valid) |-> OrZero(valid[i].area)])

LandSize(s, a, avgLandSize) ==
  IF RLt(RMul(avgLandSize, R(15, 10)), Num(a))
    THEN Step(s, R(95, 100), "Large Land Size", "-5%")
  ELSE IF RLt(Num(a), RMul(avgLandSize, R(5, 10)))
    THEN Step(s, R(105, 100), "Small Land Size", "+5%")
  ELSE s

\* Variant of the market-trend step that multiplies and pushes no entry.
MarketTrendUnlisted(s) ==
  [s EXCEPT !.v = RMul(@, R(103, 100)), !.steps = Append(@, R(103, 100))]

MarketTrend(s) == Step(s, R(103, 100), "Market Trend", "+3%")

\* valuationFactors.push({factor: 'Limited Data', ...}): no multiplication.
LimitedDataNote(s) ==
  [s EXCEPT !.f = Append(@, Factor("Limited Data",
                                   "Estimate based on limited comparable properties"))]

\* if (estimatedValue < 1000) { estimatedValue = 1000; }
EnsureMinimum(v) == IF RLt(v, Num(MinValue)) THEN Num(MinValue) ELSE v

\* Fallback-branch steps of the fixed version.
FallbackWaterProximity(s, ft) ==
  IF ft.nearWater THEN Step(s, R(120, 100), "Water Proximity", "+20%") ELSE s

FallbackLargeLand(s, a) ==
  IF a > FallbackLargeArea THEN Step(s, R(90, 100), "Large Land Size", "-10%") ELSE s

FallbackMarketTrend(s) == Step(s, R(105, 100), "Market Trend (Estimate)", "+5%")

(***************************************************************************)
(* Statistics                                                              *)
(***************************************************************************)
\* sortedPrices[Math.floor(sortedPrices.length * 0.25)]  (0-based index)
lowerQuartile(sortedPrices) == sortedPrices[(Len(sortedPrices) \div 4) + 1]

\* Variant of the upper quartile that takes the largest value.
upperQuartileLast(sortedPrices) == sortedPrices[Len(sortedPrices)]

\* sortedPrices[Math.floor(sortedPrices.length * 0.75)]
upperQuartile(sortedPrices) == sortedPrices[((3 * Len(sortedPrices)) \div 4) + 1]

\* sortedPrices.filter(price => price >= lowerBound && price <= upperBound)
filteredPrices(sortedPrices) ==
  LET lq == lowerQuartile(sortedPrices)
      uq == upperQuartile(sortedPrices)
      iqr == RSub(uq, lq)
      lowerBound == RSub(lq, RMul(R(15, 10), iqr))
      upperBound == RAdd(uq, RMul(R(15, 10), iqr))
      InBounds(price) == RLe(lowerBound, price) /\ RLe(price, upperBound)
  IN  SelectSeq(sortedPrices, InBounds)

\* basePrice = (avgPricePerSqFt * 0.7) + (medianPricePerSqFt * 0.3)
blend(avg, median) == RAdd(RMul(avg, R(7, 10)), RMul(median, R(3, 10)))

\* Service version: sortedPrices[Math.floor(sortedPrices.length / 2)]
medianUpper(sortedPrices) == sortedPrices[(Len(sortedPrices) \div 2) + 1]

\* Fixed version: midpoint average for even counts.
medianMidpoint(sortedPrices) ==
  IF Len(sortedPrices) = 1 THEN sortedPrices[1]
  ELSE LET middle == Len(sortedPrices) \div 2
       IN  IF Len(sortedPrices) % 2 = 0
             THEN RDiv(RAdd(sortedPrices[middle], sortedPrices[middle + 1]), Num(2))
             ELSE sortedPrices[middle + 1]

(***************************************************************************)
(* Results. Besides the three returned fields a result records the locals  *)
(* of the call: the branch taken (path), basePrice, the value before the   *)
(* minimum is enforced (preClamp), the multipliers applied (steps), the    *)
(* median, the number of per-square-foot values used (count), and the      *)
(* comparables array as the call leaves it (args).                         *)
(***************************************************************************)
Returned(path, s, estimatedValue, avgPricePerSqFt, basePrice, a, median, count, args) ==
  [threw |-> FALSE, path |-> path,
   estimatedValue |-> estimatedValue,
   avgPricePerSqFt |-> avgPricePerSqFt,
   valuationFactors |-> s.f,
   basePrice |-> basePrice,
   raw |-> RMul(basePrice, Num(a)),
   preClamp |-> s.v,
   steps |-> s.steps,
   median |-> median,
   count |-> count,
   args |-> args]

\* throw new Error('No valid comparable properties found for valuation')
Thrown(args) ==
  [threw |-> TRUE, path |-> "throw",
   estimatedValue |-> undefined, avgPricePerSqFt |-> undefined,
   valuationFactors |-> <<>>, basePrice |-> undefined, raw |-> undefined,
   preClamp |-> undefined, steps |-> <<>>, median |-> undefined,
   count |-> 0, args |-> args]

NoResult == Thrown(<<>>)

(***************************************************************************)
(* The callbacks that read a comparable. Each returns the value it yields  *)
(* and the property object as the callback leaves it: filter and map hand  *)
(* the caller's own objects to the callback, so a write would show in the  *)
(* comparables argument.                                                   *)
(***************************************************************************)
\* Service version: validComparables.map(property => property.pricePerSqFt)
readPricePerSqFt(property) ==
  [value |-> property.pricePerSqFt, property |-> property]

\* Variant of the map callback that stores the derived value on the property.
derivePricePerSqFtStored(property) ==
  LET value == IF Truthy(property.pricePerSqFt) THEN property.pricePerSqFt
               ELSE IF Truthy(property.price) /\ Truthy(property.area)
                 THEN RDiv(property.price, property.area)
               ELSE Num(0)
  IN  [value |-> value, property |-> [property EXCEPT !.pricePerSqFt = value]]

\* Fixed version: the map callback deriving price / area when needed.
derivePricePerSqFt(property) ==
  [value |-> IF Truthy(property.pricePerSqFt) THEN property.pricePerSqFt
             ELSE IF Truthy(property.price) /\ Truthy(property.area)
               THEN RDiv(property.price, property.area)
             ELSE Num(0),
   property |-> property]

\* Service version: comparables.filter(p => p.price && p.pricePerSqFt)
isValidComparable(p) == Truthy(p.price) /\ Truthy(p.pricePerSqFt)

\* Fixed version: comparables.filter(p => p.price && (p.pricePerSqFt || p.area > 0))
isValidComparableFix(p) ==
  Truthy(p.price) /\ (Truthy(p.pricePerSqFt) \/ Positive(p.area))

(***************************************************************************)
(* calculateLandValue, src/services/valuationService.js                    *)
(***************************************************************************)
calculateLandValue(a, comps, ft) ==
  LET validComparables == SelectSeq(comps, isValidComparable)
      args == [i \in 1..Len(comps) |->
                 IF isValidComparable(comps[i])
                   THEN readPricePerSqFt(comps[i]).property ELSE comps[i]]
  IN
  IF Len(validComparables) = 0 THEN Thrown(args)
  ELSE
    LET pricePerSqFtValues ==
          [i \in 1..Len(validComparables) |-> readPricePerSqFt(validComparables[i]).value]
        sortedPrices == SortAsc(pricePerSqFtValues)
        avgPricePerSqFt == Mean(filteredPrices(sortedPrices))
        medianPricePerSqFt == medianUpper(sortedPrices)
        basePrice == blend(avgPricePerSqFt, medianPricePerSqFt)
        s == MarketTrend(
               LandSize(
                 NoUtilities(NoRoadAccess(WaterProximity(Start(basePrice, a), ft), ft), ft),
                 a, avgLandSizeOf(validComparables)))
    IN  Returned("full", s, EnsureMinimum(s.v), avgPricePerSqFt, basePrice, a,
                 medianPricePerSqFt, Len(sortedPrices), args)

(***************************************************************************)
(* calculateLandValue, "FIX FOR MISSING COMPARABLES" version               *)
(***************************************************************************)
calculateLandValueFix(a, comps, ft) ==
  LET validComparables == SelectSeq(comps, isValidComparableFix)
      args == [i \in 1..Len(comps) |->
                 IF isValidComparableFix(comps[i])
                   THEN derivePricePerSqFt(comps[i]).property ELSE comps[i]]
      basePriceFallback == Num(FallbackBasePrice)
  IN
  IF Len(validComparables) = 0 THEN
    \* lines 90-130: fallback valuation, returned without enforcing the minimum
    LET s == FallbackMarketTrend(
               FallbackLargeLand(
                 NoUtilities(NoRoadAccess(
                   FallbackWaterProximity(Start(basePriceFallback, a), ft), ft), ft),
                 a))
    IN  Returned("fallback", s, s.v, basePriceFallback, basePriceFallback, a,
                 undefined, 0, comps)
  ELSE
    LET IsPositive(value) == Positive(value)
        pricePerSqFtValues ==
          SelectSeq([i \in 1..Len(validComparables) |->
                       derivePricePerSqFt(validComparables[i]).value], IsPositive)
    IN
    IF Len(pricePerSqFtValues) = 0 THEN
      \* lines 145-157: baseline, no adjustment, one 'Default Valuation' entry
      LET s0 == Start(basePriceFallback, a)
          s == [s0 EXCEPT !.f = <<Factor("Default Valuation", "Baseline")>>]
      IN  Returned("default", s, s.v, basePriceFallback, basePriceFallback, a,
                   undefined, 0, args)
    ELSE
      LET sortedPrices == SortAsc(pricePerSqFtValues)
          medianPricePerSqFt == medianMidpoint(sortedPrices)
      IN
      IF Len(sortedPrices) >= QuartileMin THEN
        LET avgPricePerSqFt == Mean(filteredPrices(sortedPrices))
            basePrice == blend(avgPricePerSqFt, medianPricePerSqFt)
            s == MarketTrend(
                   LandSize(
                     NoUtilities(NoRoadAccess(WaterProximity(Start(basePrice, a), ft), ft), ft),
                     a, avgLandSizeOf(validComparables)))
        IN  Returned("full", s, EnsureMinimum(s.v), avgPricePerSqFt, basePrice, a,
                     medianPricePerSqFt, Len(sortedPrices), args)
      ELSE
        LET avgPricePerSqFt == Mean(sortedPrices)
            s == LimitedDataNote(MarketTrend(
                   NoUtilities(NoRoadAccess(
                     WaterProximity(Start(avgPricePerSqFt, a), ft), ft), ft)))
        IN  Returned("limited", s, EnsureMinimum(s.v), avgPricePerSqFt, avgPricePerSqFt, a,
                     medianPricePerSqFt, Len(sortedPrices), args)

\* The module behind require('../services/valuationService').
Estimator(version, a, comps, ft) ==
  IF version = "service" THEN calculateLandValue(a, comps, ft)
  ELSE calculateLandValueFix(a, comps, ft)

(***************************************************************************)
(* Scraping routes: the activeJobs map                                     *)
(***************************************************************************)
\* POST /listings requests handled, and milliseconds Date.now() runs over.
MaxJobs == 2

MaxClock == 2

\* 'job_' + Date.now(): a job ID is written as its millisecond.
JobIds == 0..MaxClock

\* activeJobs.get(jobId) of a key the map does not hold.
Absent == [status |-> "absent", progress |-> 0]

Entry(jobStatus, progress) == [status |-> jobStatus, progress |-> progress]

\* A request not yet received.
Idle == [pc |-> "idle", jobId |-> 0]

\* No request received and an empty map.
NoScraping ==
  /\ now = 0
  /\ activeJobs = [id \in JobIds |-> Absent]
  /\ requests = [r \in 1..MaxJobs |-> Idle]

(***************************************************************************)
(* POST /estimate, from the call of the estimator to the response          *)
(***************************************************************************)
NoResponse == [sent |-> FALSE, success |-> FALSE, estimatedValue |-> 0,
               avgPricePerSqFt |-> undefined, valuationFactors |-> <<>>,
               comparables |-> 0]

\* No request is being handled: the estimator is called directly.
NoRequest == [lat |-> undefined, lng |-> undefined, area |-> undefined,
              zoning |-> undefined, features |-> undefined]

\* The log of the collaborator calls of one request, in order.
NoSelection == [ran |-> <<>>]

Init ==
  /\ impl \in {"service", "fix"}
  /\ area \in Areas
  /\ comparables \in ComparableLists
  /\ features \in FeatureSets
  /\ pc = "call"
  /\ result = NoResult
  /\ response = NoResponse
  /\ req = NoRequest
  /\ sel = NoSelection
  /\ status = 0
  /\ NoScraping

\* valuationService.calculateLandValue(parsedArea, comparables, features)
\* inside the try of lines 183-189, service version loaded.
CallService ==
  /\ pc = "call"
  /\ impl = "service"
  /\ features \in FeatureSets
  /\ result' = calculateLandValue(area, comparables, features)
  /\ comparables' = result'.args
  /\ pc' = IF result'.threw THEN "catch" ELSE "respond"
  /\ UNCHANGED <<impl, area, features, response, req, sel, status>>
  /\ UNCHANGED scrapingVars

\* The same call with the fixed version loaded.
CallFix ==
  /\ pc = "call"
  /\ impl = "fix"
  /\ features \in FeatureSets
  /\ result' = calculateLandValueFix(area, comparables, features)
  /\ comparables' = result'.args
  /\ pc' = IF result'.threw THEN "catch" ELSE "respond"
  /\ UNCHANGED <<impl, area, features, response, req, sel, status>>
  /\ UNCHANGED scrapingVars

\* res.json({ success: true, valuation: {...}, comparables: [...] })
Respond ==
  /\ pc = "respond"
  /\ response' = [sent |-> TRUE, success |-> TRUE,
                  estimatedValue |-> MathRound(result.estimatedValue),
                  avgPricePerSqFt |-> OrZero(result.avgPricePerSqFt),
                  valuationFactors |-> result.valuationFactors,
                  comparables |-> Len(comparables)]
  /\ status' = 200
  /\ pc' = "done"
  /\ UNCHANGED <<impl, area, comparables, features, result, req, sel>>
  /\ UNCHANGED scrapingVars

\* catch (valuationError): "a minimal response with default values"
RespondDefault ==
  /\ pc = "catch"
  /\ response' = [sent |-> TRUE, success |-> TRUE,
                  estimatedValue |-> MathRound(RMul(Num(area), Num(DefaultRate))),
                  avgPricePerSqFt |-> Num(DefaultRate),
                  valuationFactors |-> <<Factor("Default Estimation", "Baseline"),
                                         Factor("Limited Data", "Approximation only")>>,
                  comparables |-> 0]
  /\ status' = 200
  /\ pc' = "done"
  /\ UNCHANGED <<impl, area, comparables, features, result, req, sel>>
  /\ UNCHANGED scrapingVars

Next == CallService \/ CallFix \/ Respond \/ RespondDefault

Spec == Init /\ [][Next]_vars

TypeOK ==
  /\ impl \in {"service", "fix"}
  /\ area \in Areas
  /\ features \in FeatureSets
  /\ pc \in {"call", "respond", "catch", "done"}
  /\ Len(comparables) <= MaxComps

(***************************************************************************)
(* The estimator on longer lists of usable comparables                     *)
(***************************************************************************)
MaxStat == 5

\* Usable comparables only: 120, 240 (derived by the fix version, absent
\* for the service version) and 1200 per square foot.
StatPool == {Complete, NoPerSqFt, Expensive}

StatLists == UNION {[1..k -> StatPool] : k \in 1..MaxStat}

InitStats ==
  /\ impl \in {"service", "fix"}
  /\ area = 1000
  /\ comparables \in StatLists
  /\ features = [nearWater |-> FALSE, roadAccess |-> TRUE, utilities |-> TRUE]
  /\ pc = "call"
  /\ result = NoResult
  /\ response = NoResponse
  /\ req = NoRequest
  /\ sel = NoSelection
  /\ status = 0
  /\ NoScraping

SpecStats == InitStats /\ [][Next]_vars

(***************************************************************************)
(* POST /estimate: the request body                                        *)
(***************************************************************************)
\* JSON values of the body: numbers are rationals, an absent field is
\* undefined, a string is Str(s), null is JsNull, an object is a record.
Str(s) == [string |-> s]

JsNull == [null |-> TRUE]

IsString(v) == DOMAIN v = {"string"}

\* typeof v, for the values a features field takes; typeof null is 'object'.
typeof(v) == IF IsString(v) THEN "string" ELSE "object"

\* !v is false for a non-empty string and for a non-zero number.
IsTruthy(v) == IsString(v) \/ Truthy(v)

\* parseFloat(v): NaN for a string that starts with no number and for undefined.
parseFloat(v) == IF IsString(v) THEN undefined ELSE v

isNaN(v) == v = undefined

toLowerCase(s) ==
  CASE s = "Commercial" -> "commercial"
    [] OTHER -> s

validZonings == {"residential", "commercial", "agricultural", "industrial"}

\* The defaults of the destructuring assignment apply to absent fields only.
DefaultZoning == Str("residential")

DefaultFeatures == [nearWater |-> FALSE, roadAccess |-> TRUE, utilities |-> TRUE]

zoningOf(body) == IF body.zoning = undefined THEN DefaultZoning ELSE body.zoning

featuresOf(body) == IF body.features = undefined THEN DefaultFeatures ELSE body.features

LatValues == {undefined, Num(0), Num(45), Num(91), Str("abc")}

LngValues == {Num(0), Num(10), Num(181)}

AreaValues == {undefined, Num(0), Num(-5), Str("abc"), Num(1000)}

ZoningValues == {undefined, Str("Commercial"), Str("swamp"), JsNull}

FeaturesValues == {undefined, [nearWater |-> TRUE, roadAccess |-> TRUE, utilities |-> FALSE],
                   JsNull, Str("yes")}

Requests == [lat : LatValues, lng : LngValues, area : AreaValues,
             zoning : ZoningValues, features : FeaturesValues]

\* The outcome of the checks of the handler, in their order: "400" for a
\* rejection, "TypeError" when zoning has no toLowerCase, "ok" otherwise.
validate(body) ==
  IF ~IsTruthy(body.lat) \/ ~IsTruthy(body.lng) THEN "400"
  ELSE IF ~IsTruthy(body.area) THEN "400"
  ELSE IF isNaN(parseFloat(body.lat)) \/ isNaN(parseFloat(body.lng)) THEN "400"
  ELSE IF isNaN(parseFloat(body.area)) \/ ~Positive(parseFloat(body.area)) THEN "400"
  ELSE IF ~IsString(zoningOf(body)) THEN "TypeError"
  ELSE IF toLowerCase(zoningOf(body).string) \notin validZonings THEN "400"
  ELSE IF typeof(featuresOf(body)) # "object" THEN "400"
  ELSE "ok"

\* isValidCoordinate of the helpers, which the handler does not call.
isValidCoordinate(lat, lng) ==
  LET validLat == ~isNaN(lat) /\ RLe(Num(-90), lat) /\ RLe(lat, Num(90))
      validLng == ~isNaN(lng) /\ RLe(Num(-180), lng) /\ RLe(lng, Num(180))
  IN  validLat /\ validLng

(***************************************************************************)
(* POST /estimate: the store and the geocoder                              *)
(***************************************************************************)
maxDesired == 10

Stage2Threshold == 5

\* Variant of the threshold of stage 3 that still asks for more at seven.
Stage3ThresholdWide == maxDesired - 2

Stage3Threshold == 3

\* Variant of the threshold of stage 4 that equals that of stage 2.
Stage4ThresholdWide == Stage2Threshold

Stage4Threshold == 3

\* A stored listing. Listings differ in _id only.
Doc(id) == [_id |-> id, price |-> Num(120000), area |-> Num(1000),
            pricePerSqFt |-> Num(120)]

\* The placeholder listing; its _id 'fallback_id' is written 0.
fallbackProperty == [_id |-> 0, price |-> Num(100000), area |-> Num(1000),
                     pricePerSqFt |-> Num(100)]

Ids(list) == {list[i]._id : i \in 1..Len(list)}

Max(S) == IF S = {} THEN 0 ELSE CHOOSE x \in S : \A y \in S : y <= x

\* What a query with .limit(k) may answer when `list` is already selected:
\* at most k distinct listings, `again` of them selected before and `fresh`
\* of them not. Listings being interchangeable, the ones selected before
\* are the lowest ids and the fresh ones the next unused ids.
Answers(list, k) ==
  {ans \in [again : 0..Cardinality(Ids(list)), fresh : 0..k] :
     ans.again + ans.fresh <= k}

Listings(list, ans) ==
  [i \in 1..(ans.again + ans.fresh) |->
     IF i <= ans.again THEN Doc(i) ELSE Doc(Max(Ids(list)) + i - ans.again)]

\* Variant of the limit that forgets the listings already selected.
limitOfWhole(list) == maxDesired

\* The limit a stage asks for.
limitOf(list) == maxDesired - Len(list)

Logged(call, failed, returned, fresh) ==
  [call |-> call, failed |-> failed, returned |-> returned, fresh |-> fresh]

\* Outcomes of the reverse geocoder in stage 3: it throws, it answers no
\* result, a result naming no governorate, or a governorate.
GeocodeOutcomes == {"error", "empty", "unnamed", "governorate"}

(***************************************************************************)
(* POST /estimate: the handler up to the call of the estimator             *)
(***************************************************************************)
InitSel ==
  /\ impl \in {"service", "fix"}
  /\ req \in Requests
  /\ area = 0
  /\ comparables = <<>>
  /\ features = featuresOf(req)
  /\ pc = "validate"
  /\ result = NoResult
  /\ response = NoResponse
  /\ sel = NoSelection
  /\ status = 0
  /\ NoScraping

\* Lines 25-74: the checks, each answering 400 and returning.
Validate ==
  /\ pc = "validate"
  /\ LET outcome == validate(req) IN
       /\ pc' = CASE outcome = "400" -> "done"
                  [] outcome = "TypeError" -> "error"
                  [] OTHER -> "stage1"
       /\ status' = IF outcome = "400" THEN 400 ELSE status
       /\ response' = IF outcome = "400" THEN [NoResponse EXCEPT !.sent = TRUE]
                      ELSE response
       /\ area' = IF outcome = "ok" THEN parseFloat(req.area).n ELSE area
  /\ UNCHANGED <<impl, comparables, features, result, req, sel>>
  /\ UNCHANGED scrapingVars

\* Stage 1: listings of the same zoning within 10 km, .limit(10).
Stage1 ==
  /\ pc = "stage1"
  /\ \/ /\ sel' = [sel EXCEPT !.ran = Append(@, Logged("stage1", TRUE, 0, 0))]
        /\ pc' = "error"
        /\ UNCHANGED comparables
     \/ \E ans \in Answers(comparables, maxDesired) :
          /\ comparables' = Listings(comparables, ans)
          /\ sel' = [sel EXCEPT !.ran =
                       Append(@, Logged("stage1", FALSE, Len(comparables'), ans.fresh))]
          /\ pc' = "stage2"
  /\ UNCHANGED <<impl, area, features, result, response, req, status>>
  /\ UNCHANGED scrapingVars

\* Stage 2: any listing within 20 km, .limit(10 - comparables.length).
Stage2 ==
  /\ pc = "stage2"
  /\ Len(comparables) < Stage2Threshold
  /\ \/ /\ sel' = [sel EXCEPT !.ran = Append(@, Logged("stage2", TRUE, 0, 0))]
        /\ pc' = "error"
        /\ UNCHANGED comparables
     \/ \E ans \in Answers(comparables, limitOf(comparables)) :
          /\ comparables' = comparables \o Listings(comparables, ans)
          /\ sel' = [sel EXCEPT !.ran =
                       Append(@, Logged("stage2", FALSE, ans.again + ans.fresh, ans.fresh))]
          /\ pc' = "stage3"
  /\ UNCHANGED <<impl, area, features, result, response, req, status>>
  /\ UNCHANGED scrapingVars

SkipStage2 ==
  /\ pc = "stage2"
  /\ ~(Len(comparables) < Stage2Threshold)
  /\ pc' = "stage3"
  /\ UNCHANGED <<impl, area, comparables, features, result, response, req, sel, status>>
  /\ UNCHANGED scrapingVars

\* Stage 3, inside its own try/catch: reverse geocoding, then listings whose
\* governorate, city or address matches, .limit(10 - comparables.length).
Stage3 ==
  /\ pc = "stage3"
  /\ Len(comparables) < Stage3Threshold
  /\ \E geocode \in GeocodeOutcomes :
       LET geocoded == Append(sel.ran, Logged("geocode", geocode = "error", 0, 0)) IN
       \/ /\ geocode # "governorate"
          /\ sel' = [sel EXCEPT !.ran = geocoded]
          /\ UNCHANGED comparables
       \/ /\ geocode = "governorate"
          /\ sel' = [sel EXCEPT !.ran = Append(geocoded, Logged("stage3", TRUE, 0, 0))]
          /\ UNCHANGED comparables
       \/ /\ geocode = "governorate"
          /\ \E ans \in Answers(comparables, limitOf(comparables)) :
               /\ comparables' = comparables \o Listings(comparables, ans)
               /\ sel' = [sel EXCEPT !.ran =
                            Append(geocoded,
                                   Logged("stage3", FALSE, ans.again + ans.fresh, ans.fresh))]
  /\ pc' = "stage4"
  /\ UNCHANGED <<impl, area, features, result, response, req, status>>
  /\ UNCHANGED scrapingVars

SkipStage3 ==
  /\ pc = "stage3"
  /\ ~(Len(comparables) < Stage3Threshold)
  /\ pc' = "stage4"
  /\ UNCHANGED <<impl, area, comparables, features, result, response, req, sel, status>>
  /\ UNCHANGED scrapingVars

\* Stage 4: any listing of the store, .limit(10 - comparables.length).
Stage4 ==
  /\ pc = "stage4"
  /\ Len(comparables) < Stage4Threshold
  /\ \/ /\ sel' = [sel EXCEPT !.ran = Append(@, Logged("stage4", TRUE, 0, 0))]
        /\ pc' = "error"
        /\ UNCHANGED comparables
     \/ \E ans \in Answers(comparables, limitOf(comparables)) :
          /\ comparables' = comparables \o Listings(comparables, ans)
          /\ sel' = [sel EXCEPT !.ran =
                       Append(@, Logged("stage4", FALSE, ans.again + ans.fresh, ans.fresh))]
          /\ pc' = "placeholder"
  /\ UNCHANGED <<impl, area, features, result, response, req, status>>
  /\ UNCHANGED scrapingVars

SkipStage4 ==
  /\ pc = "stage4"
  /\ ~(Len(comparables) < Stage4Threshold)
  /\ pc' = "placeholder"
  /\ UNCHANGED <<impl, area, comparables, features, result, response, req, sel, status>>
  /\ UNCHANGED scrapingVars

\* Lines 156-180: one placeholder listing when nothing was found.
Placeholder ==
  /\ pc = "placeholder"
  /\ IF Len(comparables) = 0
       THEN /\ comparables' = <<fallbackProperty>>
            /\ sel' = [sel EXCEPT !.ran = Append(@, Logged("placeholder", FALSE, 1, 1))]
       ELSE UNCHANGED <<comparables, sel>>
  /\ pc' = "call"
  /\ UNCHANGED <<impl, area, features, result, response, req, status>>
  /\ UNCHANGED scrapingVars

\* The call with features null: reading features.nearWater throws a
\* TypeError, on every branch that reads it.
CallNullFeatures ==
  /\ pc = "call"
  /\ features = JsNull
  /\ LET r == Estimator(impl, area, comparables, DefaultFeatures) IN
       result' = IF ~r.threw /\ r.path = "default" THEN r ELSE Thrown(r.args)
  /\ comparables' = result'.args
  /\ pc' = IF result'.threw THEN "catch" ELSE "respond"
  /\ UNCHANGED <<impl, area, features, response, req, sel, status>>
  /\ UNCHANGED scrapingVars

\* Lines 284-291: catch (error) of the handler answers 500.
OuterCatch ==
  /\ pc = "error"
  /\ response' = [NoResponse EXCEPT !.sent = TRUE]
  /\ status' = 500
  /\ pc' = "done"
  /\ UNCHANGED <<impl, area, comparables, features, result, req, sel>>
  /\ UNCHANGED scrapingVars

NextSel ==
  \/ Validate
  \/ Stage1
  \/ Stage2
  \/ SkipStage2
  \/ Stage3
  \/ SkipStage3
  \/ Stage4
  \/ SkipStage4
  \/ Placeholder
  \/ CallService
  \/ CallFix
  \/ CallNullFeatures
  \/ Respond
  \/ RespondDefault
  \/ OuterCatch

SpecSel == InitSel /\ [][NextSel]_vars

(***************************************************************************)
(* Scraping routes: POST /listings, startScrapingJob and GET /status       *)
(*                                                                         *)
(* Node runs a handler without interruption up to its first await: the     *)
(* POST handler and the start of startScrapingJob down to the await of     *)
(* scraper.initialize() form one uninterrupted run, modelled by            *)
(* PostListings followed by StartScrapingJob with nothing in between.      *)
(***************************************************************************)
\* parseInt of a body field that is a whole number, a string or absent.
parseInt(v) == IF IsString(v) THEN undefined ELSE v

\* Bodies of POST /listings.
ListingBodies == [location : {undefined, Str("Tunis")},
                  radius : {undefined, Num(0), Num(30), Num(101), Str("abc")}]

\* const { location, radius = 30 } = req.body, and the two checks.
validListing(body) ==
  LET radius == IF body.radius = undefined THEN Num(30) ELSE body.radius
      parsedRadius == parseInt(radius)
  IN  /\ body.location # undefined
      /\ ~(isNaN(parsedRadius) \/ ~Positive(parsedRadius) \/ RLt(Num(100), parsedRadius))

\* A handler has created its job and not yet reached its first await.
Busy == \E r \in 1..MaxJobs : requests[r].pc = "created"

\* activeJobs.set(jobId, {...activeJobs.get(jobId), status, progress})
withStatus(jobId, jobStatus, progress) ==
  [activeJobs EXCEPT ![jobId] = Entry(jobStatus, progress)]

\* updateJobProgress(jobId, progress, message)
updateJobProgress(jobId, progress) ==
  IF activeJobs[jobId] # Absent
    THEN [activeJobs EXCEPT ![jobId] = Entry(@.status, progress)]
    ELSE activeJobs

\* GET /status/:jobId: what the handler reports of the job.
getStatus(jobId) ==
  IF activeJobs[jobId] = Absent THEN Entry("unknown", 0) ELSE activeJobs[jobId]

ValuationIdle ==
  /\ impl = "service"
  /\ area = 0
  /\ comparables = <<>>
  /\ features = DefaultFeatures
  /\ pc = "done"
  /\ result = NoResult
  /\ response = NoResponse
  /\ req = NoRequest
  /\ sel = NoSelection
  /\ status = 0

InitJobs == ValuationIdle /\ NoScraping

\* Date.now() moves on by a millisecond.
Tick ==
  /\ now < MaxClock
  /\ now' = now + 1
  /\ UNCHANGED <<activeJobs, requests>>
  /\ UNCHANGED valuationVars

\* POST /listings, lines 52-84: a ValidationError, or the job entry
\* 'queued' under 'job_' + Date.now() and the response.
PostListings(r) ==
  /\ ~Busy
  /\ requests[r].pc = "idle"
  /\ \E body \in ListingBodies :
       IF validListing(body)
         THEN /\ activeJobs' = withStatus(now, "queued", 0)
              /\ requests' = [requests EXCEPT ![r] = [pc |-> "created", jobId |-> now]]
         ELSE /\ requests' = [requests EXCEPT ![r] = [pc |-> "rejected", jobId |-> 0]]
              /\ UNCHANGED activeJobs
  /\ UNCHANGED now
  /\ UNCHANGED valuationVars

\* startScrapingJob, lines 95-111: status 'running', then the await of
\* scraper.initialize().
StartScrapingJob(r) ==
  /\ requests[r].pc = "created"
  /\ activeJobs' = withStatus(requests[r].jobId, "running",
                              activeJobs[requests[r].jobId].progress)
  /\ requests' = [requests EXCEPT ![r].pc = "initialize"]
  /\ UNCHANGED now
  /\ UNCHANGED valuationVars

\* catch (error), lines 145-167: the error log is written, then status
\* 'failed' and the clean-up timer; or appendFileSync throws and the
\* function ends there.
Caught(r) ==
  \/ /\ activeJobs' = withStatus(requests[r].jobId, "failed", 100)
     /\ requests' = [requests EXCEPT ![r].pc = "timer"]
  \/ /\ requests' = [requests EXCEPT ![r].pc = "crashed"]
     /\ UNCHANGED activeJobs

\* scraper.initialize() resolves: updateJobProgress(jobId, 10, ...) and the
\* await of scraper.scrape(); or it rejects.
Initialized(r) ==
  /\ ~Busy
  /\ requests[r].pc = "initialize"
  /\ \/ /\ activeJobs' = updateJobProgress(requests[r].jobId, 10)
        /\ requests' = [requests EXCEPT ![r].pc = "scrape"]
     \/ Caught(r)
  /\ UNCHANGED now
  /\ UNCHANGED valuationVars

\* scraper.scrape() resolves with success or failure: the final status and
\* the clean-up timer; or it rejects.
Scraped(r) ==
  /\ ~Busy
  /\ requests[r].pc = "scrape"
  /\ \/ \E success \in BOOLEAN :
          /\ activeJobs' = withStatus(requests[r].jobId,
                                      IF success THEN "completed" ELSE "failed", 100)
          /\ requests' = [requests EXCEPT ![r].pc = "timer"]
     \/ Caught(r)
  /\ UNCHANGED now
  /\ UNCHANGED valuationVars

\* The timer of lines 141-143 and 164-166 fires: activeJobs.delete(jobId).
CleanUp(r) ==
  /\ ~Busy
  /\ requests[r].pc = "timer"
  /\ activeJobs' = [activeJobs EXCEPT ![requests[r].jobId] = Absent]
  /\ requests' = [requests EXCEPT ![r].pc = "cleaned"]
  /\ UNCHANGED now
  /\ UNCHANGED valuationVars

NextJobs ==
  \/ Tick
  \/ \E r \in 1..MaxJobs : PostListings(r)
  \/ \E r \in 1..MaxJobs : StartScrapingJob(r)
  \/ \E r \in 1..MaxJobs : Initialized(r)
  \/ \E r \in 1..MaxJobs : Scraped(r)
  \/ \E r \in 1..MaxJobs : CleanUp(r)

SpecJobs == InitJobs /\ [][NextJobs]_vars

\* The run to the first await is not interrupted, the scraper's promises
\* settle and the timers fire.
JobsFair ==
  \A r \in 1..MaxJobs :
    /\ WF_vars(StartScrapingJob(r))
    /\ WF_vars(Initialized(r))
    /\ WF_vars(Scraped(r))
    /\ WF_vars(CleanUp(r))

SpecJobsFair == SpecJobs /\ JobsFair

(***************************************************************************)
(* Vocabulary of the properties                                            *)
(***************************************************************************)
\* The estimator has been called and its outcome is in result.
Called == pc # "call"

\* The multiplier a percentage string denotes: 1 + p/100.
PercentStrings == {"+15%", "-30%", "-20%", "-5%", "+5%", "+3%", "+20%", "-10%"}

PercentMultiplier(adj) ==
  CASE adj = "+15%" -> R(115, 100)
    [] adj = "-30%" -> R(70, 100)
    [] adj = "-20%" -> R(80, 100)
    [] adj = "-5%"  -> R(95, 100)
    [] adj = "+5%"  -> R(105, 100)
    [] adj = "+3%"  -> R(103, 100)
    [] adj = "+20%" -> R(120, 100)
    [] adj = "-10%" -> R(90, 100)

\* The multipliers named by a factor list, in order; entries whose adjustment
\* is not a percentage (notes such as 'Limited Data') name no multiplier.
NamedMultipliers(factors) ==
  LET IsPercent(f) == f.adjustment \in PercentStrings
      pct == SelectSeq(factors, IsPercent)
  IN  [i \in 1..Len(pct) |-> PercentMultiplier(pct[i].adjustment)]

\* Factor names that mark a low-confidence result.
LowConfidenceFactors == {"Limited Data", "Default Valuation", "Default Estimation"}

Flagged(factors) == \E i \in 1..Len(factors) : factors[i].factor \in LowConfidenceFactors

FeatureNames == {"nearWater", "roadAccess", "utilities"}

\* The same call with one feature switched on.
WithFeatureOn(k) == Estimator(impl, area, comparables, [features EXCEPT ![k] = TRUE])

(***************************************************************************)
(* C1. The estimator never throws: for every positive area and every       *)
(* comparables list, empty and malformed ones included, the call returns   *)
(* a result.                                                               *)
(* Violated by the service version, which throws on an empty valid set.    *)
(***************************************************************************)
C1_NeverThrows == Called => ~result.threw

(***************************************************************************)
(* C2. Every estimatedValue handed back is at least the minimum (1000):    *)
(* the value the estimator returns on each of its branches, and the value  *)
(* the route sends, its default response included.                         *)
(* Violated: the fallback branches and the route default skip the minimum. *)
(***************************************************************************)
C2_FloorClamped ==
  /\ (Called /\ ~result.threw) => RLe(Num(MinValue), result.estimatedValue)
  /\ response.sent => response.estimatedValue >= MinValue

(***************************************************************************)
(* C3. Floor clamp: whenever the value after all adjustments is below the  *)
(* minimum, estimatedValue is exactly the minimum, and the factor list     *)
(* names the multipliers applied and nothing for the clamp.                *)
(* Violated on the fallback branches, which return the value unclamped.    *)
(***************************************************************************)
C3_FloorClamp ==
  (Called /\ ~result.threw /\ RLt(result.preClamp, Num(MinValue)))
    => /\ result.estimatedValue = Num(MinValue)
       /\ NamedMultipliers(result.valuationFactors) = result.steps

C5_AuditTrail ==
  (Called /\ ~result.threw)
    => /\ NamedMultipliers(result.valuationFactors) = result.steps
       /\ result.preClamp =
            RMul(RMul(result.basePrice, Num(area)),
                 Product(NamedMultipliers(result.valuationFactors)))

\* A result to which at least four multipliers were applied.
C5_Witness ==
  /\ Called /\ ~result.threw
  /\ Len(result.steps) >= 4
  /\ features.nearWater

(***************************************************************************)
(* C6. The reported base price (avgPricePerSqFt) is the one the estimate   *)
(* was built from: reported base x area equals the raw estimate.           *)
(* Violated on the >= 4 branch, which builds the estimate from             *)
(* 0.7*avg + 0.3*median and reports avg.                                   *)
(***************************************************************************)
C6_ReportedBase ==
  (Called /\ ~result.threw)
    => RMul(result.avgPricePerSqFt, Num(area)) = result.raw

(***************************************************************************)
(* C7. Low-confidence results are flagged and still succeed: a call with   *)
(* fewer than 4 usable comparables returns, and its factor list has a      *)
(* limited-data or default entry; a result from >= 4 has none.             *)
(* Violated: the service version throws on none and never flags; the       *)
(* fixed version's first fallback branch has no such entry.                *)
(***************************************************************************)
C7_LowConfidenceFlagged ==
  Called
    => /\ ~result.threw
       /\ (result.count < QuartileMin) <=> Flagged(result.valuationFactors)

(***************************************************************************)
(* C8. Fallback baseline: with no usable comparable the estimate is the    *)
(* fixed base x area adjusted by exactly x1.15 (nearWater), x0.70 (no road *)
(* access), x0.80 (no utilities), each only when triggered, and by nothing *)
(* else.                                                                   *)
(* Violated: the fallback branch uses x1.2, a -10% large-plot step and a   *)
(* +5% trend; the default branch applies no adjustment.                    *)
(***************************************************************************)
C8_FallbackBaseline ==
  (Called /\ result.count = 0)
    => /\ ~result.threw
       /\ result.basePrice = Num(FallbackBasePrice)
       /\ result.steps =
            (IF features.nearWater THEN <<R(115, 100)>> ELSE <<>>)
            \o (IF ~features.roadAccess THEN <<R(70, 100)>> ELSE <<>>)
            \o (IF ~features.utilities THEN <<R(80, 100)>> ELSE <<>>)

(***************************************************************************)
(* C10. The estimator does not mutate its inputs: the call leaves the      *)
(* comparables list (order, length, every entry's price, area and          *)
(* pricePerSqFt) and the features record as they were.                     *)
(***************************************************************************)
C10_InputsUnchanged ==
  [][pc = "call" => (comparables' = comparables /\ features' = features)]_vars

\* The fixed version has derived price / area for an entry without
\* pricePerSqFt and returned.
C10_Witness ==
  /\ pc = "respond"
  /\ impl = "fix"
  /\ result.path \in {"full", "limited"}
  /\ \E i \in 1..Len(comparables) :
       ~Truthy(comparables[i].pricePerSqFt) /\ isValidComparableFix(comparables[i])

(***************************************************************************)
(* Vocabulary of the selection properties                                  *)
(***************************************************************************)
\* The collaborator call has been made in this request.
Invoked(call) == \E i \in 1..Len(sel.ran) : sel.ran[i].call = call

\* The call has been made and threw.
Failed(call) == \E i \in 1..Len(sel.ran) : sel.ran[i].call = call /\ sel.ran[i].failed

\* The selection is over: the list is the one handed to the estimator.
Selected == pc \in {"call", "respond", "catch", "done"} /\ Invoked("stage1")
              /\ ~Failed("stage1") /\ ~Failed("stage2") /\ ~Failed("stage4")

\* The store answered 2 listings in stage 1 and 5 further ones in stage 2.
TwoThenFive ==
  /\ Len(sel.ran) >= 2
  /\ sel.ran[1] = Logged("stage1", FALSE, 2, 2)
  /\ sel.ran[2] = Logged("stage2", FALSE, 5, 5)

(***************************************************************************)
(* C11 as stated. When stage 1 answers 2 listings and stage 2 offers 5     *)
(* further distinct ones, the selection holds exactly 5 listings (2 + 3)   *)
(* and stage 3, the reverse geocoding and the region-text query, is never  *)
(* invoked.                                                                *)
(* Violated: stage 2 asks for up to 10 - 2 = 8 and keeps all 5.            *)
(***************************************************************************)
C11_StopsAtMinDesired ==
  TwoThenFive => /\ Len(comparables) = Stage2Threshold
                 /\ ~Invoked("geocode") /\ ~Invoked("stage3")

(***************************************************************************)
(* C11 amended. When stage 1 answers 2 listings and stage 2 offers 5       *)
(* further distinct ones, the selection holds all 7 of them, and stage 3   *)
(* is never invoked.                                                       *)
(***************************************************************************)
C11_KeepsAllOffered ==
  TwoThenFive => /\ Len(comparables) = 7
                 /\ Cardinality(Ids(comparables)) = 7
                 /\ ~Invoked("geocode") /\ ~Invoked("stage3")

C11_Witness == TwoThenFive /\ pc = "done" /\ status = 200 /\ response.comparables = 7

(***************************************************************************)
(* C12. Deduplication by identity: after any of the stages, no two         *)
(* listings of the selection have the same _id.                            *)
(* Violated: each stage appends what its query answers, and the query of   *)
(* stage 2 answers the listings of stage 1 again.                          *)
(***************************************************************************)
C12_NoDuplicates == Cardinality(Ids(comparables)) = Len(comparables)

(***************************************************************************)
(* C13. Size bound: after every stage, and in the list handed to the       *)
(* estimator, the selection holds at most maxDesired (10) listings.        *)
(***************************************************************************)
C13_AtMostMaxDesired == Len(comparables) <= maxDesired

\* Two stages have filled the selection to the bound.
C13_Witness ==
  /\ Invoked("stage2")
  /\ Len(comparables) = maxDesired
  /\ sel.ran[2].returned > 0
  /\ pc = "done"

(***************************************************************************)
(* C14. Stage-error recovery: when the store or the geocoder throws in one *)
(* of the stages 1 to 4, the handler does not fail: it goes on to the next *)
(* stage and the request ends with a successful valuation.                 *)
(* Violated: only stage 3 has a try/catch of its own; an error of the      *)
(* store in stage 1, 2 or 4 reaches the catch of the handler, which        *)
(* answers 500.                                                            *)
(***************************************************************************)
C14_StageErrorsRecovered ==
  \A call \in {"stage1", "stage2", "geocode", "stage3", "stage4"} :
    Failed(call) => /\ pc # "error"
                    /\ pc = "done" => (status = 200 /\ response.success)

(***************************************************************************)
(* C15. Empty store: when every stage yields nothing, the selection is     *)
(* exactly the one placeholder listing, the request is answered with a     *)
(* successful valuation, and the valuation sent carries a low-confidence   *)
(* entry reporting that it rests on fallback data.                         *)
(* Violated by the service version: the placeholder is valued like a real  *)
(* listing and the factors sent name no fallback.                          *)
(***************************************************************************)
C15_PlaceholderReported ==
  (Invoked("placeholder") /\ pc = "done")
    => /\ comparables = <<fallbackProperty>>
       /\ status = 200 /\ response.success
       /\ Flagged(response.valuationFactors)

(***************************************************************************)
(* Vocabulary of the validation properties                                 *)
(***************************************************************************)
\* The area of the body is absent, not a number, or not positive.
BadArea == req.area = undefined \/ IsString(req.area) \/ ~Positive(req.area)

\* The category is not one of the four, whatever its letter case.
BadCategory ==
  \/ ~IsString(zoningOf(req))
  \/ toLowerCase(zoningOf(req).string) \notin validZonings

\* The features value is a string or null.
BadFeatures == IsString(featuresOf(req)) \/ featuresOf(req) = JsNull

\* The checks are over.
Validated == pc # "validate"

\* The request went on to the selection.
Accepted == pc = "stage1" \/ Invoked("stage1")

(***************************************************************************)
(* C16. Validation fails fast: a request whose area is non-positive or     *)
(* not a number, whose category is not one of the four, or whose features  *)
(* value is not an object is answered 400 before any store query,          *)
(* geocoder call or valuation, and never with a successful valuation.      *)
(* Violated: features null passes typeof features and is valued; a         *)
(* category that is not a string ends in 500.                              *)
(***************************************************************************)
C16_FailsFast ==
  (Validated /\ (BadArea \/ BadCategory \/ BadFeatures))
    => /\ pc = "done" /\ status = 400
       /\ sel.ran = <<>> /\ result = NoResult
       /\ ~response.success

(***************************************************************************)
(* C17. Coordinate validation is exact: a request that is otherwise valid  *)
(* goes on to the selection if and only if its latitude is a number in     *)
(* [-90, 90] and its longitude a number in [-180, 180]; lat = 0 and        *)
(* lng = 0 are accepted.                                                   *)
(* Violated both ways: 0 is rejected as missing, and no range is checked.  *)
(***************************************************************************)
C17_CoordinatesExact ==
  (Validated /\ ~BadArea /\ ~BadCategory /\ ~BadFeatures)
    => (Accepted <=> isValidCoordinate(parseFloat(req.lat), parseFloat(req.lng)))

(***************************************************************************)
(* Vocabulary of the statistics properties                                 *)
(***************************************************************************)
\* The per-square-foot values the called version keeps of the comparables.
UsedValues ==
  IF impl = "service"
    THEN LET kept == SelectSeq(comparables, isValidComparable)
         IN  [i \in 1..Len(kept) |-> readPricePerSqFt(kept[i]).value]
    ELSE LET kept == SelectSeq(comparables, isValidComparableFix)
             IsPositive(value) == Positive(value)
         IN  SelectSeq([i \in 1..Len(kept) |-> derivePricePerSqFt(kept[i]).value],
                       IsPositive)

SortedValues == SortAsc(UsedValues)

\* The median of a sorted list: the middle value, or the average of the
\* two middle values when the count is even.
MidpointMedian(sorted) ==
  LET n == Len(sorted)
  IN  IF n % 2 = 1 THEN sorted[(n + 1) \div 2]
      ELSE RDiv(RAdd(sorted[n \div 2], sorted[(n \div 2) + 1]), Num(2))

\* Positional quartiles: the value with floor(n/4), respectively
\* floor(3n/4), values before it.
PositionalQ1(sorted) == sorted[CHOOSE i \in 1..Len(sorted) : 4 * (i - 1) <= Len(sorted)
                                                          /\ Len(sorted) < 4 * i]

PositionalQ3(sorted) == sorted[CHOOSE i \in 1..Len(sorted) : 4 * (i - 1) <= 3 * Len(sorted)
                                                          /\ 3 * Len(sorted) < 4 * i]

\* The indices of the values neither below Q1 - 1.5 IQR nor above Q3 + 1.5 IQR.
RetainedIndices(sorted) ==
  LET iqr == RSub(PositionalQ3(sorted), PositionalQ1(sorted))
      reach == RAdd(iqr, RDiv(iqr, Num(2)))
  IN  {i \in 1..Len(sorted) :
         /\ ~RLt(sorted[i], RSub(PositionalQ1(sorted), reach))
         /\ ~RLt(RAdd(PositionalQ3(sorted), reach), sorted[i])}

\* The mean of the values at the given indices.
MeanAt(sorted, indices) ==
  Mean([j \in 1..Cardinality(indices) |->
          sorted[CHOOSE i \in indices : Cardinality({k \in indices : k < i}) = j - 1]])

\* One value stands out above (below) the others, which are all equal.
SingleHighOutlier(sorted) ==
  /\ \A i \in 1..(Len(sorted) - 1) : sorted[i] = sorted[1]
  /\ RLt(RMul(Num(5), sorted[1]), sorted[Len(sorted)])

SingleLowOutlier(sorted) ==
  /\ \A i \in 2..Len(sorted) : sorted[i] = sorted[2]
  /\ RLt(RMul(Num(5), sorted[1]), sorted[2])

(***************************************************************************)
(* C18. Central tendency for 4 or more usable values: basePrice is         *)
(* 0.7 * avg + 0.3 * median, avg being the mean of the values the outlier  *)
(* filter retains and median the median of the whole sorted set, the       *)
(* average of the two middle values when the count is even.                *)
(* Violated by the service version, which takes the upper middle value.    *)
(***************************************************************************)
C18_CentralTendency ==
  (Called /\ ~result.threw /\ result.count >= QuartileMin)
    => result.basePrice =
         RAdd(RMul(R(7, 10), MeanAt(SortedValues, RetainedIndices(SortedValues))),
              RMul(R(3, 10), MidpointMedian(SortedValues)))

(***************************************************************************)
(* C19 as stated. For 4 or more usable values, avg is the mean of exactly  *)
(* the values within [Q1 - 1.5 IQR, Q3 + 1.5 IQR] for the floor-indexed    *)
(* quartiles, the median is taken over the unfiltered set, and a single    *)
(* extreme value among otherwise equal values does not enter avg.          *)
(* Violated with 4 values: Q3 is then the largest value itself.            *)
(***************************************************************************)
C19_OutlierNeverEnters ==
  (Called /\ ~result.threw /\ result.count >= QuartileMin)
    => /\ result.avgPricePerSqFt = MeanAt(SortedValues, RetainedIndices(SortedValues))
       /\ result.median \in {MidpointMedian(SortedValues), medianUpper(SortedValues)}
       /\ SingleHighOutlier(SortedValues) => result.avgPricePerSqFt = SortedValues[1]
       /\ SingleLowOutlier(SortedValues) => result.avgPricePerSqFt = SortedValues[2]

(***************************************************************************)
(* C19 amended. For 4 or more usable values, avg is the mean of exactly    *)
(* the values within [Q1 - 1.5 IQR, Q3 + 1.5 IQR] for the floor-indexed    *)
(* quartiles and the median is taken over the unfiltered set; a single     *)
(* extreme low value among otherwise equal values never enters avg, a      *)
(* single extreme high value does not enter avg when there are 5 or more   *)
(* values, and enters it when there are exactly 4.                         *)
(***************************************************************************)
C19_OutlierFilter ==
  (Called /\ ~result.threw /\ result.count >= QuartileMin)
    => /\ result.avgPricePerSqFt = MeanAt(SortedValues, RetainedIndices(SortedValues))
       /\ result.median \in {MidpointMedian(SortedValues), medianUpper(SortedValues)}
       /\ SingleLowOutlier(SortedValues) => result.avgPricePerSqFt = SortedValues[2]
       /\ (SingleHighOutlier(SortedValues) /\ result.count > QuartileMin)
            => result.avgPricePerSqFt = SortedValues[1]
       /\ (SingleHighOutlier(SortedValues) /\ result.count = QuartileMin)
            => result.avgPricePerSqFt = Mean(SortedValues)

\* Five values, one of them ten times the others, and a sent response.
C19_Witness ==
  /\ pc = "done" /\ ~result.threw
  /\ result.count = 5
  /\ SingleHighOutlier(SortedValues)
  /\ result.avgPricePerSqFt = Num(120)
  /\ result.median = Num(120)

(***************************************************************************)
(* C20. Limited data: for 1, 2 or 3 usable values basePrice is the plain   *)
(* mean of all of them, with no outlier filter and no median blend.        *)
(* Violated by the service version, which filters and blends for any       *)
(* count.                                                                  *)
(***************************************************************************)
C20_LimitedDataMean ==
  (Called /\ ~result.threw /\ result.count \in 1..(QuartileMin - 1))
    => /\ result.basePrice = Mean(SortedValues)
       /\ result.avgPricePerSqFt = Mean(SortedValues)

(***************************************************************************)
(* Vocabulary of the sanitizing properties                                 *)
(***************************************************************************)
\* A positive price per unit area can be obtained from the comparable.
Salvageable(p) ==
  \/ Positive(p.pricePerSqFt)
  \/ p.pricePerSqFt = undefined /\ Positive(p.price) /\ Positive(p.area)

\* The value obtained from a salvageable comparable.
UnitPrice(p) == IF Positive(p.pricePerSqFt) THEN p.pricePerSqFt ELSE RDiv(p.price, p.area)

\* The comparables of the call that can be salvaged, and their values.
SanitizedComparables == SelectSeq(comparables, Salvageable)

SanitizedValues ==
  [i \in 1..Len(SanitizedComparables) |-> UnitPrice(SanitizedComparables[i])]

(***************************************************************************)
(* C21. Sanitizing: the values that enter the statistics are exactly the   *)
(* values of the comparables from which a positive price per unit area     *)
(* can be obtained (their own positive pricePerSqFt, else price / area     *)
(* with both positive), and each of them is strictly positive.             *)
(* Violated: the service version drops a comparable that has price and     *)
(* area only and keeps a negative pricePerSqFt; both versions drop a       *)
(* comparable that has a pricePerSqFt and no price.                        *)
(***************************************************************************)
C21_Sanitized ==
  (Called /\ ~result.threw)
    => /\ SortedValues = SortAsc(SanitizedValues)
       /\ result.count = Len(SanitizedValues)
       /\ \A i \in 1..Len(SortedValues) : Positive(SortedValues[i])

(***************************************************************************)
(* Vocabulary of the adjustment-order properties                           *)
(***************************************************************************)
\* The place of an adjustment in the fixed order; 0 for the notes.
OrderOf(name) ==
  CASE name = "Water Proximity" -> 1
    [] name = "No Road Access" -> 2
    [] name = "No Utilities" -> 3
    [] name \in {"Large Land Size", "Small Land Size"} -> 4
    [] name \in {"Market Trend", "Market Trend (Estimate)"} -> 5
    [] OTHER -> 0

Listed(factors, name) == \E i \in 1..Len(factors) : factors[i].factor = name

\* The adjustments of the list are in the fixed order, none of them twice.
InFixedOrder(factors) ==
  \A i, j \in 1..Len(factors) :
    (i < j /\ OrderOf(factors[i].factor) > 0 /\ OrderOf(factors[j].factor) > 0)
      => OrderOf(factors[i].factor) < OrderOf(factors[j].factor)

\* Each feature entry is listed exactly when its trigger holds.
TriggeredOnly(factors) ==
  /\ Listed(factors, "Water Proximity") <=> features.nearWater
  /\ Listed(factors, "No Road Access") <=> ~features.roadAccess
  /\ Listed(factors, "No Utilities") <=> ~features.utilities

(***************************************************************************)
(* C22. Fixed adjustment order: in every result the entries present are    *)
(* in the order water proximity, no road access, no utilities, land size,  *)
(* market trend, and each feature entry is present if and only if its      *)
(* trigger holds (nearWater true, roadAccess false, utilities false).      *)
(* Violated by the baseline result of the later version, which lists no    *)
(* feature entry whatever the features are.                                *)
(***************************************************************************)
C22_FixedOrder ==
  (Called /\ ~result.threw)
    => /\ InFixedOrder(result.valuationFactors)
       /\ TriggeredOnly(result.valuationFactors)

(***************************************************************************)
(* Vocabulary of the market-trend properties                               *)
(***************************************************************************)
TrendFactor == Factor("Market Trend", "+3%")

Occurrences(s, x) == Cardinality({i \in 1..Len(s) : s[i] = x})

\* The +3% multiplier is applied exactly once and after every other one.
TrendAppliedLast ==
  /\ Occurrences(result.steps, R(103, 100)) = 1
  /\ result.steps[Len(result.steps)] = R(103, 100)
  /\ Occurrences(result.valuationFactors, TrendFactor) = 1

\* The result was computed from at least one usable comparable.
FromComparables == Called /\ ~result.threw /\ result.count >= 1

(***************************************************************************)
(* C23 as stated. In every result computed from at least one usable        *)
(* comparable the +3% market-trend multiplier is applied exactly once,     *)
(* after all other multipliers, and its entry is the final entry of the    *)
(* factor list.                                                            *)
(* Violated with 1-3 usable comparables: the 'Limited Data' note is        *)
(* pushed after it.                                                        *)
(***************************************************************************)
C23_TrendEntryFinal ==
  FromComparables
    => /\ TrendAppliedLast
       /\ result.valuationFactors[Len(result.valuationFactors)] = TrendFactor

(***************************************************************************)
(* C23 amended. In every result computed from at least one usable          *)
(* comparable the +3% market-trend multiplier is applied exactly once,     *)
(* after all other multipliers, and its entry is the last of the entries   *)
(* that name a multiplier: nothing follows it but the 'Limited Data' note  *)
(* of the 1-3 branch.                                                      *)
(***************************************************************************)
C23_TrendLast ==
  FromComparables
    => /\ TrendAppliedLast
       /\ \A i, j \in 1..Len(result.valuationFactors) :
            (result.valuationFactors[i] = TrendFactor /\ i < j)
              => /\ result.valuationFactors[j].factor = "Limited Data"
                 /\ result.path = "limited"
                 /\ j = Len(result.valuationFactors)
       /\ result.path = "full"
            => result.valuationFactors[Len(result.valuationFactors)] = TrendFactor

\* A limited-data result with every feature adjustment, sent.
C23_Witness ==
  /\ pc = "done" /\ FromComparables
  /\ result.path = "limited"
  /\ Len(result.steps) = 4
  /\ result.valuationFactors[4] = TrendFactor
  /\ Len(result.valuationFactors) = 5

(***************************************************************************)
(* C24. Land-size gating: a land-size entry is listed only in results      *)
(* computed from 4 or more usable comparables; it is then either 'Large    *)
(* Land Size' at -5% or 'Small Land Size' at +5%, never both; with 1-3     *)
(* usable comparables neither is listed.                                   *)
(* Violated by the service version, which runs the land-size test for any  *)
(* count.                                                                  *)
(***************************************************************************)
C24_LandSizeGated ==
  (Called /\ ~result.threw)
    => LET factors == result.valuationFactors
           landSize == {i \in 1..Len(factors) : OrderOf(factors[i].factor) = 4}
       IN  /\ Cardinality(landSize) <= 1
           /\ landSize # {} => result.count >= QuartileMin
           /\ \A i \in landSize :
                factors[i] \in {Factor("Large Land Size", "-5%"),
                                Factor("Small Land Size", "+5%")}

(***************************************************************************)
(* Vocabulary of the mean-area properties                                  *)
(***************************************************************************)
\* The comparables whose values entered the statistics of the call.
StatComparables ==
  IF impl = "service" THEN SelectSeq(comparables, isValidComparable)
  ELSE LET Used(p) == isValidComparableFix(p) /\ Positive(derivePricePerSqFt(p).value)
       IN  SelectSeq(comparables, Used)

\* The comparables the call sums the areas of, and the mean it divides out.
AreaComparables ==
  IF impl = "service" THEN SelectSeq(comparables, isValidComparable)
  ELSE SelectSeq(comparables, isValidComparableFix)

\* The land-size entries a mean area calls for.
LandSizeEntries(meanArea) ==
  IF RLt(RAdd(meanArea, RDiv(meanArea, Num(2))), Num(area))
    THEN {Factor("Large Land Size", "-5%")}
  ELSE IF RLt(RMul(Num(2), Num(area)), meanArea)
    THEN {Factor("Small Land Size", "+5%")}
  ELSE {}

(***************************************************************************)
(* C25. Whenever the land-size test is run, the mean area it uses is the   *)
(* mean of the areas of exactly the comparables whose values entered the   *)
(* price statistics: no other comparable is counted, none is counted with  *)
(* a missing area as 0, and the land-size entry listed is the one this     *)
(* mean calls for.                                                         *)
(* Violated: a comparable without area is counted as area 0.               *)
(***************************************************************************)
C25_MeanArea ==
  (Called /\ ~result.threw /\ result.path = "full")
    => /\ AreaComparables = StatComparables
       /\ \A i \in 1..Len(AreaComparables) : Positive(AreaComparables[i].area)
       /\ {result.valuationFactors[i] : i \in 1..Len(result.valuationFactors)}
            \cap {Factor("Large Land Size", "-5%"), Factor("Small Land Size", "+5%")}
          = LandSizeEntries(Mean([i \in 1..Len(StatComparables) |-> StatComparables[i].area]))

(***************************************************************************)
(* Vocabulary of the ordering properties                                   *)
(***************************************************************************)
\* The list with the comparables at positions i and j exchanged.
Exchanged(list, i, j) ==
  [k \in 1..Len(list) |-> IF k = i THEN list[j] ELSE IF k = j THEN list[i] ELSE list[k]]

\* What a call returns to its caller.
Outcome(r) == <<r.threw, r.estimatedValue, r.basePrice, r.avgPricePerSqFt, r.valuationFactors>>

StageOf(call) ==
  CASE call = "stage1" -> 1
    [] call = "stage2" -> 2
    [] call = "geocode" -> 3
    [] call = "stage3" -> 4
    [] call = "stage4" -> 5
    [] OTHER -> 6

\* The calls were made in the order of the stages, none of them twice.
InStageOrder ==
  \A i, j \in 1..Len(sel.ran) :
    i < j => StageOf(sel.ran[i].call) < StageOf(sel.ran[j].call)

\* The number of listings the call answered; 0 when it was not made.
ReturnedBy(call) ==
  IF Invoked(call)
    THEN sel.ran[CHOOSE i \in 1..Len(sel.ran) : sel.ran[i].call = call].returned
    ELSE 0

\* The handler is past the test of the stage.
Decided2 == Invoked("stage1") /\ ~Failed("stage1") /\ pc # "stage2"

Decided3 == Decided2 /\ ~Failed("stage2") /\ pc # "stage3"

Decided4 == Decided3 /\ pc # "stage4"

\* Each of stages 2, 3 and 4 has run exactly when the running count was
\* below its threshold.
Gated(t2, t3, t4) ==
  /\ Decided2 => (Invoked("stage2") <=> ReturnedBy("stage1") < t2)
  /\ Decided3 => (Invoked("geocode") <=>
                    ReturnedBy("stage1") + ReturnedBy("stage2") < t3)
  /\ Decided4 => (Invoked("stage4") <=>
                    ReturnedBy("stage1") + ReturnedBy("stage2") + ReturnedBy("stage3") < t4)

(***************************************************************************)
(* C27 as stated. The stages run in the order 1, 2, 3, 4, each at most     *)
(* once, and each of stages 2, 3 and 4 runs if and only if the running     *)
(* count is below one and the same threshold.                              *)
(* Violated: with 4 listings stage 2 runs and stage 3 does not.            *)
(***************************************************************************)
C27_OneThreshold ==
  /\ InStageOrder
  /\ \E minDesired \in 1..maxDesired : Gated(minDesired, minDesired, minDesired)

(***************************************************************************)
(* C27 amended. The stages run in the order 1, 2, 3, 4, each at most once  *)
(* with a single query; stage 2 runs if and only if the running count is   *)
(* below 5, and stages 3 and 4 if and only if it is below 3; the query of  *)
(* stage 3 is made only after its geocoder call.                           *)
(***************************************************************************)
C27_StageGating ==
  /\ InStageOrder
  /\ Gated(5, 3, 3)
  /\ Invoked("stage3") => Invoked("geocode") /\ ~Failed("geocode")

\* Four listings after stage 1: stage 2 has run, stages 3 and 4 have not.
C27_Witness ==
  /\ pc = "done" /\ status = 200
  /\ ReturnedBy("stage1") = 4
  /\ Invoked("stage2") /\ ReturnedBy("stage2") = 0
  /\ ~Invoked("geocode") /\ ~Invoked("stage4")

(***************************************************************************)
(* Vocabulary of the scraping-job properties                               *)
(***************************************************************************)
\* The request was accepted and given a job ID.
AcceptedJob(r) == requests[r].pc \notin {"idle", "rejected"}

FinalStatuses == {"completed", "failed"}

\* The moves of the status of one key of the map.
StatusMoves ==
  {<<"absent", "queued">>, <<"queued", "running">>,
   <<"running", "completed">>, <<"running", "failed">>,
   <<"completed", "absent">>, <<"failed", "absent">>}

\* No two accepted requests have the same job ID.
DistinctJobIds ==
  \A r, s \in 1..MaxJobs :
    (r # s /\ AcceptedJob(r) /\ AcceptedJob(s)) => requests[r].jobId # requests[s].jobId

\* One step of the map, for one key.
LifecycleStep(jobId) ==
  /\ \/ activeJobs'[jobId].status = activeJobs[jobId].status
     \/ <<activeJobs[jobId].status, activeJobs'[jobId].status>> \in StatusMoves
  /\ (activeJobs[jobId] # Absent /\ activeJobs'[jobId] # Absent)
       => activeJobs'[jobId].progress >= activeJobs[jobId].progress
  /\ updateJobProgress(jobId, 10)[jobId].status = activeJobs[jobId].status

(***************************************************************************)
(* C28. Scraping-job lifecycle: the status of every entry of activeJobs    *)
(* only moves queued -> running -> completed or failed; a completed or     *)
(* failed entry keeps its status until it is deleted; updateJobProgress    *)
(* changes no status; the progress of an entry never decreases.            *)
(* Violated when two requests share a job ID: the second resets the entry  *)
(* of the first.                                                           *)
(***************************************************************************)
C28_Lifecycle == [][\A jobId \in JobIds : LifecycleStep(jobId)]_vars

(***************************************************************************)
(* C29. Every job created by POST /listings eventually has its final       *)
(* status (completed or failed) set and is later removed from activeJobs,  *)
(* whether the scraper succeeds, reports failure or throws, and also when  *)
(* writing the error log fails.                                            *)
(* Violated: when appendFileSync throws inside the catch block the job     *)
(* keeps the status running and no timer is set.                           *)
(***************************************************************************)
C29_JobsEnd ==
  \A r \in 1..MaxJobs :
    /\ requests[r].pc = "created" ~> requests[r].pc \in {"timer", "cleaned"}
    /\ requests[r].pc = "created" ~> requests[r].pc = "cleaned"

(***************************************************************************)
(* C30. Job identity: any two accepted POST /listings requests have        *)
(* distinct job IDs, so that each entry of activeJobs belongs to one job   *)
(* and GET /status/:jobId reports that job's own state.                    *)
(* Violated: the ID is the millisecond of the request.                     *)
(***************************************************************************)
C30_DistinctJobIds ==
  /\ DistinctJobIds
  /\ \A r \in 1..MaxJobs :
       requests[r].pc = "initialize" => getStatus(requests[r].jobId) = Entry("running", 0)

====
